---- MODULE Spec2Model ----
(***************************************************************************)
(* A model of go-coinbase-trade's request pipeline: the Pagination cursor  *)
(* shared by the List operations, the client construction (NewClient) and  *)
(* the rate gate of Client.Request.                                        *)
(*                                                                         *)
(* Time is in milliseconds.  A cursor is the string the server sent, ""    *)
(* when it sent none.  An item of a page is the pair <<page, index>>.      *)
(***************************************************************************)
EXTENDS Integers, Sequences, FiniteSets, TLC

(* ------------------------------ bounds -------------------------------- *)
\* NextPage calls a caller makes on one list (the List operation's included)
MaxCalls == 3
\* items on one page
MaxPageLen == 2
\* the total count (num_products) a server reports
MaxTotal == 3
\* the page-size limit a caller passes to ListProducts
MaxLimit == 2
\* pages a cursor-mode server holds
MaxPages == 3
\* the time a server takes to answer, in the runs that do not vary it
ServerTime == 20
\* the clock's reading when a run of the client starts, and where it stops
StartTime == 100
MaxTime == 250
\* the clock's step when two threads run
RaceStep == 25

(* ------------------------- program constants -------------------------- *)
apiInterval == 50
DefaultProductsLimit == 100
DefaultOrdersLimit == 50

VARIABLES
    pc,        \* where the caller is: "start", "listed", "body", "done"
    op,        \* the List operation that made the list
    params,    \* the parameters struct held by the Pagination (its Limit field)
    p,         \* the Pagination embedded in the list value the caller holds
    heap,      \* backing arrays of the item slices, by array id
    parent,    \* the slice header of the list value that p.parent points to
    list,      \* the slice header of the list value the caller holds
    lastReq,   \* the query of the latest request
    sent,      \* requests issued so far
    reqLog,    \* the queries of the requests the documented loop issued, in order
    lastResp,  \* the response to the latest request
    lastErr,   \* what the latest NextPage call returned
    lastSent,  \* whether the latest NextPage call issued a request
    calls,     \* NextPage calls made so far
    bodies,    \* loop bodies the documented loop has run
    srv,       \* the well-behaved server the documented loop runs against
    now,       \* the clock
    lastCall,  \* Client.lastCall
    env,       \* the environment variables COINBASE_HOST, _PATH, _KEY, _SECRET
    config,    \* the *ClientConfig passed to NewClient
    client,    \* Host, Path, Key and Secret of the Client
    created,   \* when NewClient returned
    tpc,       \* where each calling thread is in Client.Request
    callAt,    \* when each thread entered Request
    wake,      \* until when each thread's time.Sleep lasts
    seen,      \* the lastCall each thread read when it entered Request
    sentAt,    \* when each thread's latest request was dispatched
    dispatched,    \* requests handed to the HTTP client so far
    firstDispatch, \* when the first of them was dispatched
    prevDispatch,  \* when the one before the latest was dispatched
    lastDispatch,  \* when the latest was dispatched
    arg,       \* the operation a single call runs, with its inputs
    ret        \* what that call returned

listVars == <<pc, op, params, p, heap, parent, list, lastReq, sent, reqLog,
              lastResp, lastErr, lastSent, calls, bodies, srv>>
clientVars == <<env, config, client, created>>
gateVars == <<tpc, callAt, wake, seen, sentAt, dispatched, firstDispatch, prevDispatch,
              lastDispatch>>
callVars == <<arg, ret>>
vars == <<listVars, now, lastCall, clientVars, gateVars, callVars>>

Max(a, b) == IF a >= b THEN a ELSE b
Min(a, b) == IF a <= b THEN a ELSE b

(* ------------------------------ errors -------------------------------- *)
NoErr == "nil"
ErrNoLimit == "no limit specified for offset pagination"
ErrTransport == "http response"
ErrApi == "api response"
ErrResult == "unmarshal api result"
ErrPagination == "unmarshal pagination result"

(* ------------------------- the List operations ------------------------ *)
ListOps == {"ListAccounts", "ListOrders", "ListFills", "ListProducts"}

\* The Limit field of the parameters struct after the operation's defaulting.
ParamsLimit(o, given) ==
    CASE o = "ListProducts" -> IF given <= 0 THEN DefaultProductsLimit ELSE given
      [] o = "ListOrders"   -> IF given <= 0 THEN DefaultOrdersLimit ELSE given
      [] OTHER              -> given

\* The limit field of the Pagination literal: only ListProducts sets it.
PaginationLimit(o, given) ==
    IF o = "ListProducts" THEN ParamsLimit(o, given) ELSE 0

\* The Pagination literal of a List operation (noNext, end, cursor and offset
\* at their zero values).
NewPagination(o, given) ==
    [noNext |-> FALSE, end |-> FALSE, cursor |-> "",
     limit |-> PaginationLimit(o, given), offset |-> 0]

(* ----------------------------- Pagination ----------------------------- *)
\* (mutant) Next answers from noNext, the flag the latest response set.
NextByNoNext(pg) == ~pg.noNext

Next(pg) == ~pg.end

\* (mutant) the early return clears noNext when it marks the end.
NoNextReturnClears(pg) == [pg EXCEPT !.end = TRUE, !.noNext = FALSE]

\* NextPage when noNext is set: mark the end, no request.
NoNextReturn(pg) == [pg EXCEPT !.end = TRUE]

\* (mutant) the stored cursor is not attached.
BuildQueryNoCursor(pg, limitParam) ==
    [limit  |-> limitParam,
     cursor |-> "",
     offset |-> IF pg.offset > 0 THEN pg.offset ELSE 0]

\* (mutant) the offset is attached whether or not a cursor is.
BuildQueryBoth(pg, limitParam) ==
    [limit  |-> limitParam,
     cursor |-> IF pg.cursor # "" THEN pg.cursor ELSE "",
     offset |-> IF pg.offset > 0 THEN pg.offset ELSE 0]

\* parametersToValues on the parameters struct, then the cursor or offset.
\* A parameter at its zero value is left out of the query ("" and 0 here).
BuildQuery(pg, limitParam) ==
    [limit  |-> limitParam,
     cursor |-> IF pg.cursor # "" THEN pg.cursor ELSE "",
     offset |-> IF pg.cursor = "" /\ pg.offset > 0 THEN pg.offset ELSE 0]

\* (mutant) the offset branch without the check of the limit.
OffsetStepUnchecked(pg, body) ==
    [p |-> [pg EXCEPT !.offset = pg.offset + pg.limit,
                      !.noNext = (pg.offset + pg.limit >= body.num_products)],
     err |-> NoErr]

\* (mutant) the offset branch marks exhaustion one page late.
OffsetStepLate(pg, body) ==
    IF pg.limit = 0
    THEN [p |-> pg, err |-> ErrNoLimit]
    ELSE [p |-> [pg EXCEPT !.offset = pg.offset + pg.limit,
                           !.noNext = (pg.offset + pg.limit > body.num_products)],
          err |-> NoErr]

\* The offset branch taken when the stored cursor is empty.
OffsetStep(pg, body) ==
    IF pg.limit = 0
    THEN [p |-> pg, err |-> ErrNoLimit]
    ELSE [p |-> [pg EXCEPT !.offset = pg.offset + pg.limit,
                           !.noNext = (pg.offset + pg.limit >= body.num_products)],
          err |-> NoErr]

\* (mutant) has_next is stored without the negation.
StorePageNotNegated(pg, body) ==
    LET q == [pg EXCEPT !.noNext = body.has_next, !.cursor = body.cursor]
    IN  IF q.cursor = "" THEN OffsetStep(q, body) ELSE [p |-> q, err |-> NoErr]

\* What NextPage does with the decoded pagination fields of a response.
StorePage(pg, body) ==
    LET q == [pg EXCEPT !.noNext = ~body.has_next, !.cursor = body.cursor]
    IN  IF q.cursor = "" THEN OffsetStep(q, body) ELSE [p |-> q, err |-> NoErr]

(* ------------------------------ NewClient ----------------------------- *)
Fields == {"Host", "Path", "Key", "Secret"}
Blank == [f \in Fields |-> ""]
\* A nil *ClientConfig, and the state before NewClient has returned a Client.
Nil == [nil |-> TRUE, fields |-> Blank]
NoClient == [f \in Fields |-> "no client"]

defaults ==
    [Host |-> "https://coinbase.com", Path |-> "/api/v3/brokerage",
     Key |-> "", Secret |-> ""]

\* cc: the fields of the config, all empty for a nil config.
ConfigClient(cfg) == IF cfg.nil THEN Blank ELSE cfg.fields

\* One round of the loop over {cc, defaults}: a field of c that is still
\* empty takes v's value.
FillEmpty(c, v) == [f \in Fields |-> IF c[f] = "" THEN v[f] ELSE c[f]]

\* The fields of the Client NewClient returns: c starts from the environment
\* and is filled from cc, then from defaults.
NewClientFields(cfg, e) ==
    FillEmpty(FillEmpty(e, ConfigClient(cfg)), defaults)

\* (mutant) lastCall is left at the zero time.
FirstLastCallZero(t) == 0

\* Client.lastCall as NewClient sets it.
FirstLastCall(t) == t

(* --------------------------- Client.Request --------------------------- *)
\* (mutant) Request does not sleep.
RateGateOpen(last, t) == t

\* The earliest time Request goes on to c.request: it sleeps until
\* lastCall + apiInterval, and not at all when that time has passed.
RateGate(last, t) == Max(t, last + apiInterval)

\* (mutant) every status below 300 counts as success.
RequestErrBelow300(r) ==
    IF ~r.transportOk THEN ErrTransport
    ELSE IF r.status >= 300 THEN ErrApi
    ELSE IF ~r.resultOk THEN ErrResult
    ELSE IF ~r.pagOk THEN ErrPagination
    ELSE NoErr

\* The error Request returns for a response.
RequestErr(r) ==
    IF ~r.transportOk THEN ErrTransport
    ELSE IF r.status # 200 THEN ErrApi
    ELSE IF ~r.resultOk THEN ErrResult
    ELSE IF ~r.pagOk THEN ErrPagination
    ELSE NoErr

\* Whether Request unmarshals the body into the result target.  A body that
\* fails with a type error in one field is still decoded in the others.
WritesResult(r) == r.transportOk /\ r.status = 200 /\ (r.resultOk \/ r.partial)

\* Client.lastCall after the exchange: set at dispatch, and again by the
\* deferred function once a response has come.
LastCallAfter(r, at, back) ==
    IF r.transportOk THEN back ELSE at

(* ------------------ json.Unmarshal into the item slice ---------------- *)
ZeroItem == <<0, 0>>
NilSlice == [a |-> 0, len |-> 0]
ArrayIds == {1, 2}

Cap(h, s) == IF s.a = 0 THEN 0 ELSE Len(h[s.a])

\* The items a slice header shows.
Items(h, s) == IF s.a = 0 THEN <<>> ELSE SubSeq(h[s.a], 1, s.len)

\* Elements are decoded in place while they fit the backing array.
Overwrite(arr, items) ==
    [i \in 1..Len(arr) |-> IF i <= Len(items) THEN items[i] ELSE arr[i]]

\* The array the slice moves to when it has to grow, of capacity c.
Fresh(items, c) ==
    [i \in 1..c |-> IF i <= Len(items) THEN items[i] ELSE ZeroItem]

\* The id of the array a growing slice s moves to; an array that the other
\* slice header still points to is not reused.
NewArrayId(s, other) ==
    IF s.a # 0 /\ s.a # other.a THEN s.a
    ELSE IF other.a = 1 THEN 2 ELSE 1

\* Decoding a JSON array into slice s of heap h: the elements that fit are
\* written over the old ones, the slice grows (to capacity c) when they do
\* not fit, and its length becomes the number of elements.
UnmarshalSlice(h, s, other, items, c) ==
    LET n  == Len(items)
        h1 == IF s.a = 0 THEN h ELSE [h EXCEPT ![s.a] = Overwrite(@, items)]
    IN  IF n <= Cap(h, s)
        THEN [heap |-> h1, slice |-> [s EXCEPT !.len = n]]
        ELSE LET id == NewArrayId(s, other)
             IN  [heap  |-> [h1 EXCEPT ![id] = Fresh(items, c)],
                  slice |-> [a |-> id, len |-> n]]

(* ------------------------------ responses ----------------------------- *)
CursorOf(k) == "c" \o ToString(k)
PageItems(k, n) == [i \in 1..n |-> <<k, i>>]
MaxCap == MaxPageLen + 1

OkResponse(b) ==
    [transportOk |-> TRUE, status |-> 200, resultOk |-> TRUE, pagOk |-> TRUE,
     partial |-> FALSE, body |-> b]

NoBody == [has_next |-> FALSE, cursor |-> "", num_products |-> 0, items |-> <<>>]
NoQuery == [limit |-> 0, cursor |-> "", offset |-> 0]
NoResponse == [OkResponse(NoBody) EXCEPT !.status = 0]

\* What an arbitrary server may answer to the k-th request: a page with or
\* without a cursor (a total count comes with no cursor), or a failure.
OkBodies(k) ==
    {b \in [has_next : BOOLEAN, cursor : {"", CursorOf(k)},
            num_products : 0..MaxTotal, items : {PageItems(k, MaxPageLen)}] :
        b.cursor # "" => b.num_products = 0}
FailedResponses(k) ==
    LET b == [NoBody EXCEPT !.items = PageItems(k, MaxPageLen)]
    IN  {[OkResponse(NoBody) EXCEPT !.transportOk = FALSE]}
        \cup {[OkResponse(NoBody) EXCEPT !.status = st] : st \in {201, 400}}
        \cup {[OkResponse(b) EXCEPT !.resultOk = FALSE, !.partial = pt] :
                pt \in BOOLEAN}
        \cup {[OkResponse(b) EXCEPT !.pagOk = FALSE]}
Responses(k) == {OkResponse(b) : b \in OkBodies(k)} \cup FailedResponses(k)

(* --------------------------- the operations --------------------------- *)
\* Pagination.NextPage on Pagination pg, whose parameters hold limit lim,
\* when the server answers r (c: the capacity a growing item slice gets).
NextPageCall(pg, lim, r, c) ==
    IF pg.noNext
    THEN /\ p' = NoNextReturn(pg)
         /\ lastErr' = NoErr
         /\ lastSent' = FALSE
         /\ UNCHANGED <<heap, parent, lastReq, sent, lastResp, now, lastCall>>
    ELSE LET at   == RateGate(lastCall, now)
             back == at + ServerTime
             err  == RequestErr(r)
             um   == IF WritesResult(r)
                     THEN UnmarshalSlice(heap, parent, list, r.body.items, c)
                     ELSE [heap |-> heap, slice |-> parent]
             st   == IF err = NoErr THEN StorePage(pg, r.body)
                     ELSE [p |-> pg, err |-> err]
         IN  /\ p' = st.p
             /\ lastErr' = st.err
             /\ lastSent' = TRUE
             /\ heap' = um.heap
             /\ parent' = um.slice
             /\ lastReq' = BuildQuery(pg, lim)
             /\ sent' = sent + 1
             /\ lastResp' = r
             /\ now' = back
             /\ lastCall' = LastCallAfter(r, at, back)

\* A List operation: the Pagination literal with parent = &l, the first
\* NextPage, and the return of l by value to the caller.
ListOperation(o, given, r, c) ==
    /\ op' = o
    /\ params' = ParamsLimit(o, given)
    /\ NextPageCall(NewPagination(o, given), ParamsLimit(o, given), r, c)
    /\ list' = parent'
    /\ calls' = 1

\* NextPage on the list value the caller holds.
NextPage(r, c) ==
    /\ NextPageCall(p, params, r, c)
    /\ calls' = calls + 1
    /\ UNCHANGED <<op, params, list>>

Threads == {1, 2}

GateInit ==
    /\ tpc = [t \in Threads |-> "idle"]
    /\ callAt = [t \in Threads |-> 0]
    /\ wake = [t \in Threads |-> 0]
    /\ seen = [t \in Threads |-> 0]
    /\ sentAt = [t \in Threads |-> 0]
    /\ dispatched = 0
    /\ firstDispatch = 0
    /\ prevDispatch = 0
    /\ lastDispatch = 0

\* No single call is under way.
NoCall == [op |-> "none"]
NoRet == [done |-> FALSE]
CallIdle == arg = NoCall /\ ret = NoRet

\* No list has been asked for yet.
ListIdle ==
    /\ pc = "start"
    /\ op = "none"
    /\ params = 0
    /\ p = NewPagination("none", 0)
    /\ heap = [a \in ArrayIds |-> <<>>]
    /\ parent = NilSlice
    /\ list = NilSlice
    /\ lastReq = NoQuery
    /\ sent = 0
    /\ reqLog = <<>>
    /\ lastResp = NoResponse
    /\ lastErr = NoErr
    /\ lastSent = FALSE
    /\ calls = 0
    /\ bodies = 0

\* A client that NewClient has just returned, at time 0, and no list yet.
ListInit ==
    /\ ListIdle
    /\ GateInit
    /\ now = 0
    /\ lastCall = FirstLastCall(0)
    /\ created = 0
    /\ env = Blank
    /\ config = Nil
    /\ client = NewClientFields(Nil, Blank)

(* ------------- any caller against any server: Spec -------------------- *)
NoServer == [kind |-> "any", pages |-> 0, lastCursorEmpty |-> FALSE, total |-> 0]

Init == ListInit /\ srv = NoServer /\ CallIdle

CallList ==
    /\ pc = "start"
    /\ \E o \in ListOps, given \in 0..MaxLimit, r \in Responses(1) :
          ListOperation(o, given, r, MaxCap)
    /\ pc' = "listed"
    /\ UNCHANGED <<reqLog, bodies, srv, clientVars, gateVars, callVars>>

CallNextPage ==
    /\ pc = "listed"
    /\ calls < MaxCalls
    /\ \E r \in Responses(sent + 1) : NextPage(r, MaxCap)
    /\ UNCHANGED <<pc, reqLog, bodies, srv, clientVars, gateVars, callVars>>

SpecNext == CallList \/ CallNextPage

Spec == Init /\ [][SpecNext]_vars

(* ------ the documented loop against a well-behaved server: LoopSpec --- *)
(*   list, _ := client.ListX(params)                                       *)
(*   for ; list.Next(); list.NextPage() { body }                           *)
\* The accounts, orders and fills endpoints page by cursor: every page but
\* the last has has_next = true and a cursor; the last page comes with or
\* without a cursor.  The products endpoint reports num_products and pages by
\* limit and offset.
CursorServers ==
    [kind : {"cursor"}, pages : 1..MaxPages, lastCursorEmpty : BOOLEAN, total : {0}]
OffsetServers ==
    [kind : {"offset"}, pages : {0}, lastCursorEmpty : {TRUE}, total : 0..MaxTotal]
OpsOf(s) ==
    IF s.kind = "offset" THEN {"ListProducts"}
    ELSE {"ListAccounts", "ListOrders", "ListFills"}

\* The page a cursor server serves for a query.
ServerPage(q) ==
    IF q.cursor = "" THEN 1
    ELSE 1 + (CHOOSE k \in 1..MaxPages : CursorOf(k) = q.cursor)

CursorBody(s, q, n) ==
    LET k == ServerPage(q)
    IN  [has_next |-> k < s.pages,
         cursor |-> IF k < s.pages \/ ~s.lastCursorEmpty THEN CursorOf(k) ELSE "",
         num_products |-> 0,
         items |-> PageItems(k, n)]

OffsetBody(s, q) ==
    [has_next |-> FALSE, cursor |-> "", num_products |-> s.total,
     items |-> PageItems((q.offset \div q.limit) + 1,
                         Max(0, Min(q.limit, s.total - q.offset)))]

\* The bodies the server may send for a query (a cursor server chooses the
\* page's length).
ServerBodies(s, q) ==
    IF s.kind = "offset" THEN {OffsetBody(s, q)}
    ELSE {CursorBody(s, q, n) : n \in 0..MaxPageLen}

\* The pages the server holds for a list paged with limit lim.
ServerPages(s, lim) ==
    IF s.kind = "cursor" THEN s.pages
    ELSE IF s.total = 0 THEN 1 ELSE (s.total + lim - 1) \div lim

\* Capacities the runtime may give a slice that grows to hold n items.
GrowCaps(n) == n..Max(n, MaxCap)

Logged == IF lastSent' THEN Append(reqLog, lastReq') ELSE reqLog

LoopInit == ListInit /\ srv \in CursorServers \cup OffsetServers /\ CallIdle

LoopList ==
    /\ pc = "start"
    /\ \E o \in OpsOf(srv), given \in 0..MaxLimit :
         \E b \in ServerBodies(srv, BuildQuery(NewPagination(o, given),
                                               ParamsLimit(o, given))) :
            \E c \in GrowCaps(Len(b.items)) :
               ListOperation(o, given, OkResponse(b), c)
    /\ reqLog' = Logged
    /\ pc' = "test"
    /\ UNCHANGED <<bodies, srv, clientVars, gateVars, callVars>>

LoopTest ==
    /\ pc = "test"
    /\ pc' = IF Next(p) THEN "body" ELSE "done"
    /\ UNCHANGED <<op, params, p, heap, parent, list, lastReq, sent, reqLog,
                   lastResp, lastErr, lastSent, calls, bodies, srv, now, lastCall,
                   clientVars, gateVars, callVars>>

LoopBody ==
    /\ pc = "body"
    /\ bodies' = bodies + 1
    /\ pc' = "post"
    /\ UNCHANGED <<op, params, p, heap, parent, list, lastReq, sent, reqLog,
                   lastResp, lastErr, lastSent, calls, srv, now, lastCall,
                   clientVars, gateVars, callVars>>

LoopPost ==
    /\ pc = "post"
    /\ \E b \in ServerBodies(srv, BuildQuery(p, params)) :
         \E c \in GrowCaps(Len(b.items)) :
            NextPage(OkResponse(b), c)
    /\ reqLog' = Logged
    /\ pc' = "test"
    /\ UNCHANGED <<bodies, srv, clientVars, gateVars, callVars>>

LoopNext == LoopList \/ LoopTest \/ LoopBody \/ LoopPost

LoopSpec == LoopInit /\ [][LoopNext]_vars /\ WF_vars(LoopNext)

(* ---------------- client construction: ConfigSpec --------------------- *)
Environments == [Fields -> {"", "fromEnv"}]
Configs ==
    {Nil} \cup [nil : {FALSE}, fields : [Fields -> {"", "fromConfig"}]]

NewClient ==
    /\ client = NoClient
    /\ client' = NewClientFields(config, env)
    /\ lastCall' = FirstLastCall(now)
    /\ created' = now
    /\ UNCHANGED <<listVars, now, env, config, gateVars, callVars>>

ConfigInit ==
    /\ ListIdle
    /\ srv = NoServer
    /\ GateInit
    /\ now = StartTime
    /\ lastCall = 0
    /\ created = 0
    /\ client = NoClient
    /\ env \in Environments
    /\ config \in Configs
    /\ CallIdle

ConfigSpec == ConfigInit /\ [][NewClient]_vars

(* ------------- calls through the rate gate: RateSpec ------------------ *)
TickSteps == {10, 25}

Tick ==
    /\ client # NoClient
    /\ \E dt \in TickSteps : now + dt <= MaxTime /\ now' = now + dt
    /\ UNCHANGED <<listVars, lastCall, clientVars, gateVars, callVars>>

\* Request, line 233: lastCall is read and the sleep is set.
EnterRequest(t) ==
    /\ client # NoClient
    /\ tpc[t] = "idle"
    /\ callAt' = [callAt EXCEPT ![t] = now]
    /\ wake' = [wake EXCEPT ![t] = RateGate(lastCall, now)]
    /\ seen' = [seen EXCEPT ![t] = lastCall]
    /\ tpc' = [tpc EXCEPT ![t] = "sleep"]
    /\ UNCHANGED <<listVars, now, lastCall, clientVars, sentAt, dispatched,
                   firstDispatch, prevDispatch, lastDispatch, callVars>>

\* request, lines 287-318: the sleep is over, lastCall is set and the
\* request is handed to the HTTP client.
Dispatch(t) ==
    /\ tpc[t] = "sleep"
    /\ now >= wake[t]
    /\ lastCall' = now
    /\ dispatched' = dispatched + 1
    /\ firstDispatch' = IF dispatched = 0 THEN now ELSE firstDispatch
    /\ prevDispatch' = lastDispatch
    /\ lastDispatch' = now
    /\ sentAt' = [sentAt EXCEPT ![t] = now]
    /\ tpc' = [tpc EXCEPT ![t] = "inflight"]
    /\ UNCHANGED <<listVars, now, clientVars, callAt, wake, seen, callVars>>

\* request, lines 318-331: the exchange fails, or a response comes and the
\* deferred function sets lastCall again.
Respond(t, ok) ==
    /\ tpc[t] = "inflight"
    /\ lastCall' = IF ok THEN now ELSE lastCall
    /\ tpc' = [tpc EXCEPT ![t] = "idle"]
    /\ UNCHANGED <<listVars, now, clientVars, callAt, wake, seen, sentAt,
                   dispatched, firstDispatch, prevDispatch, lastDispatch,
                   callVars>>

RateInit ==
    /\ ListIdle
    /\ srv = NoServer
    /\ GateInit
    /\ now = StartTime
    /\ lastCall = 0
    /\ created = 0
    /\ client = NoClient
    /\ env = [Blank EXCEPT !["Key"] = "fromEnv", !["Secret"] = "fromEnv"]
    /\ config = Nil
    /\ CallIdle

RateNext ==
    \/ NewClient
    \/ Tick
    \/ EnterRequest(1)
    \/ Dispatch(1)
    \/ \E ok \in BOOLEAN : Respond(1, ok)

RateSpec == RateInit /\ [][RateNext]_vars

(* Two threads share one Client with no lock around it. lastCall is read at
   line 233 and written at lines 317 and 324 by whichever thread gets there;
   a read that races with a write returns the value before or the value
   after it, which is what the interleaving of these steps produces. The
   client exists from the start, created at StartTime, and no call is
   started once MaxCalls requests have been dispatched. *)
RaceInit ==
    /\ ListIdle
    /\ srv = NoServer
    /\ GateInit
    /\ now = StartTime
    /\ env = [Blank EXCEPT !["Key"] = "fromEnv", !["Secret"] = "fromEnv"]
    /\ config = Nil
    /\ client = NewClientFields(config, env)
    /\ lastCall = FirstLastCall(StartTime)
    /\ created = StartTime
    /\ CallIdle

\* The clock of the two-thread runs moves in steps of RaceStep.
RaceTick ==
    /\ now + RaceStep <= MaxTime
    /\ now' = now + RaceStep
    /\ UNCHANGED <<listVars, lastCall, clientVars, gateVars, callVars>>

RaceNext ==
    \/ RaceTick
    \/ \E t \in Threads :
          \/ dispatched < MaxCalls /\ EnterRequest(t)
          \/ Dispatch(t)
          \/ \E ok \in BOOLEAN : Respond(t, ok)

RaceSpec == RaceInit /\ [][RaceNext]_vars

(* --------------- Request: the error of a non-200 response -------------- *)
(* A response body is a JSON document or text that is not JSON. An object
   is the sequence of its members in document order; a member's value is a
   string, a number or null. *)
JStr(s) == [t |-> "string", s |-> s, n |-> 0]
JNum(n) == [t |-> "number", s |-> "", n |-> n]
JNull == [t |-> "null", s |-> "", n |-> 0]

JObject(ms) == [json |-> "object", members |-> ms, top |-> JNull, raw |-> ""]
JTop(v) == [json |-> "value", members |-> <<>>, top |-> v, raw |-> ""]
NotJson(text) == [json |-> "invalid", members |-> <<>>, top |-> JNull, raw |-> text]

\* The bytes of a value and of a body, as %s prints them.
ValueText(v) ==
    CASE v.t = "string" -> "\"" \o v.s \o "\""
      [] v.t = "number" -> ToString(v.n)
      [] OTHER -> "null"

MemberText(m) == "\"" \o m.key \o "\":" \o ValueText(m.value)

RECURSIVE MembersText(_)
MembersText(ms) ==
    IF ms = <<>> THEN ""
    ELSE IF Len(ms) = 1 THEN MemberText(ms[1])
    ELSE MemberText(ms[1]) \o "," \o MembersText(Tail(ms))

BodyText(b) ==
    CASE b.json = "object" -> "{" \o MembersText(b.members) \o "}"
      [] b.json = "value" -> ValueText(b.top)
      [] OTHER -> b.raw

\* encoding/json matches a member to the field tagged "message" by its exact
\* name or, failing that, by its name with the case folded.
FoldsToMessage(key) == key \in {"message", "Message", "MESSAGE"}

(* json.Unmarshal(data, &e) for e := struct{ Message string }{}: members are
   decoded in document order; a string sets Message, null leaves it, any
   other value is a type error that is returned after the rest is decoded.
   Text that is not JSON, and a document that is neither an object nor null,
   are errors. *)
RECURSIVE DecodeMessage(_, _)
DecodeMessage(ms, e) ==
    IF ms = <<>> THEN e
    ELSE LET m == ms[1]
             d == IF ~FoldsToMessage(m.key) THEN e
                  ELSE IF m.value.t = "string"
                       THEN [e EXCEPT !.Message = m.value.s]
                  ELSE IF m.value.t = "null" THEN e
                  ELSE [e EXCEPT !.err = TRUE]
         IN  DecodeMessage(Tail(ms), d)

UnmarshalMessage(b) ==
    CASE b.json = "object" -> DecodeMessage(b.members, [Message |-> "", err |-> FALSE])
      [] b.json = "value" /\ b.top.t = "null" -> [Message |-> "", err |-> FALSE]
      [] OTHER -> [Message |-> "", err |-> TRUE]

\* (mutant) the error is returned without its location.
formatErrorBare(location, text) == text

formatError(location, text) == location \o ": " \o text

MissingKeyNote == " [API key or secret is missing]"

\* Request, lines 249-255: the message of the body, or the status code and
\* the body when json.Unmarshal failed.
ApiMessage(status, b) ==
    LET e == UnmarshalMessage(b)
    IN  IF e.err THEN "(" \o ToString(status) \o ") " \o BodyText(b)
        ELSE e.Message

\* Request, lines 243-264, for a response whose status is not 200.
ApiError(c, status, b) ==
    LET note == IF c["Key"] = "" \/ c["Secret"] = "" THEN MissingKeyNote ELSE ""
    IN  formatError("api response", ApiMessage(status, b) \o note)

\* Request with no result and no pagination to decode, given the response.
RequestReturns(c, status, b) ==
    IF status # 200 THEN ApiError(c, status, b) ELSE NoErr

(* -------- the error Request returns for a response: ErrorSpec ---------- *)
Statuses == {200, 400, 401}
MemberKeys == {"message", "Message", "error", "error_details"}
MemberValues == {JStr("bad request"), JStr(""), JNum(7), JNull}
Members == [key : MemberKeys, value : MemberValues]
MaxMembers == 2
MemberSeqs == UNION {[1..n -> Members] : n \in 0..MaxMembers}
Bodies ==
    {JObject(ms) : ms \in MemberSeqs}
        \cup {JTop(JNull), JTop(JStr("bad request")), JTop(JNum(7))}
        \cup {NotJson(""), NotJson("Bad Gateway")}
Credentials == {"", "fromConfig"}

ErrorInit ==
    /\ ListIdle
    /\ srv = NoServer
    /\ GateInit
    /\ now = 0
    /\ lastCall = FirstLastCall(0)
    /\ created = 0
    /\ env = Blank
    /\ config \in [nil : {FALSE},
                   fields : {[Blank EXCEPT !["Key"] = k, !["Secret"] = s] :
                                 k \in Credentials, s \in Credentials}]
    /\ client = NewClientFields(config, env)
    /\ arg \in [op : {"Request"}, status : Statuses, body : Bodies]
    /\ ret = NoRet

RequestCall ==
    /\ arg.op = "Request"
    /\ ~ret.done
    /\ ret' = [done |-> TRUE, err |-> RequestReturns(client, arg.status, arg.body)]
    /\ UNCHANGED <<listVars, now, lastCall, clientVars, gateVars, arg>>

ErrorSpec == ErrorInit /\ [][RequestCall]_vars

(* ---------------------------- CancelOrders ----------------------------- *)
\* A Go map, as the function from its keys to their values.
EmptyMap == [k \in {} |-> ""]
Put(m, k, x) == [i \in DOMAIN m \cup {k} |-> IF i = k THEN x ELSE m[i]]

\* (mutant) the loop over the results does not skip the cancelled orders.
CancelErrorsAll(results, m) ==
    [i \in {results[j].ID : j \in 1..Len(results)} |->
        LET last == CHOOSE j \in 1..Len(results) :
                       /\ results[j].ID = i
                       /\ \A k \in (j + 1)..Len(results) : results[k].ID # i
        IN  results[last].Error]

\* CancelOrders, lines 274-280: the loop over response.Results.
RECURSIVE CancelErrors(_, _)
CancelErrors(results, m) ==
    IF results = <<>> THEN m
    ELSE LET v == results[1]
         IN  CancelErrors(Tail(results),
                          IF v.Success THEN m ELSE Put(m, v.ID, v.Error))

ErrNotCancelled == "one or more orders were not cancelled successfully"

\* CancelOrders, lines 250-285, given the response to its request: status
\* and body for an error response, the decoded results for a 200.
CancelOrders(c, status, body, results) ==
    LET reqErr == RequestReturns(c, status, body)
        errs   == CancelErrors(results, EmptyMap)
    IN  IF reqErr # NoErr
        THEN [done |-> TRUE, cancelErrors |-> EmptyMap,
              err |-> formatError("api connection error", reqErr)]
        ELSE [done |-> TRUE, cancelErrors |-> errs,
              err |-> IF DOMAIN errs # {} THEN ErrNotCancelled ELSE NoErr]

(* ---------------- one CancelOrders call: CancelSpec -------------------- *)
MaxResults == 3
OrderIds == {"o1", "o2"}
CancelReasons == {"UNKNOWN_CANCEL_ORDER", "DUPLICATE_CANCEL_REQUEST", ""}
CancelResults ==
    UNION {[1..n -> [Success : BOOLEAN, Error : CancelReasons, ID : OrderIds]] :
               n \in 0..MaxResults}

CallInit ==
    /\ ListIdle
    /\ srv = NoServer
    /\ GateInit
    /\ now = 0
    /\ lastCall = FirstLastCall(0)
    /\ created = 0
    /\ env = [Blank EXCEPT !["Key"] = "fromEnv", !["Secret"] = "fromEnv"]
    /\ config = Nil
    /\ client = NewClientFields(config, env)
    /\ ret = NoRet

CancelInit ==
    /\ CallInit
    /\ arg \in [op : {"CancelOrders"}, status : {200}, body : {JTop(JNull)},
                results : CancelResults]
             \cup [op : {"CancelOrders"}, status : Statuses \ {200},
                   body : {JObject(<<[key |-> "message",
                                      value |-> JStr("bad request")]>>)},
                   results : {<<>>}]

CancelOrdersCall ==
    /\ arg.op = "CancelOrders"
    /\ ~ret.done
    /\ ret' = CancelOrders(client, arg.status, arg.body, arg.results)
    /\ UNCHANGED <<listVars, now, lastCall, clientVars, gateVars, arg>>

CancelSpec == CancelInit /\ [][CancelOrdersCall]_vars

(* ------------- orders: OrderConfiguration and the Place helpers -------- *)
Buy == "BUY"
Sell == "SELL"
MarketIOC == "market_market_ioc"
LimitGTC == "limit_limit_gtc"
LimitGTD == "limit_limit_gtd"
StopLimitGTC == "stop_limit_stop_limit_gtc"
StopLimitGTD == "stop_limit_stop_limit_gtd"
UnknownOrderConfiguration == "unknown_order_config_type"
ConfigurationTypes == {MarketIOC, LimitGTC, LimitGTD, StopLimitGTC, StopLimitGTD}

\* The zero OrderConfiguration. A decimal.Decimal is a natural number, a
\* time.Time a natural number with 0 the zero time.
ZeroConfig ==
    [Type |-> "", QuoteSize |-> 0, BaseSize |-> 0, LimitPrice |-> 0,
     StopPrice |-> 0, StopDirection |-> "", EndTime |-> 0, PostOnly |-> FALSE]

\* The OrderConfiguration each helper passes to CreateOrder.
PlaceMarketIOC(side, size) ==
    [ZeroConfig EXCEPT !.Type = MarketIOC,
                       !.QuoteSize = IF side = Buy THEN size ELSE 0,
                       !.BaseSize = IF side = Buy THEN 0 ELSE size]

PlaceLimitGTC(size, price, postOnly) ==
    [ZeroConfig EXCEPT !.Type = LimitGTC, !.BaseSize = size,
                       !.LimitPrice = price, !.PostOnly = postOnly]

PlaceLimitGTD(size, price, endTime, postOnly) ==
    [ZeroConfig EXCEPT !.Type = LimitGTD, !.BaseSize = size,
                       !.LimitPrice = price, !.EndTime = endTime,
                       !.PostOnly = postOnly]

PlaceStopLimitGTC(size, price, stopPrice, stopDirection) ==
    [ZeroConfig EXCEPT !.Type = LimitGTD, !.BaseSize = size,
                       !.LimitPrice = price, !.StopPrice = stopPrice,
                       !.StopDirection = stopDirection]

PlaceStopLimitGTD(size, price, stopPrice, stopDirection, endTime) ==
    [ZeroConfig EXCEPT !.Type = LimitGTD, !.BaseSize = size,
                       !.LimitPrice = price, !.StopPrice = stopPrice,
                       !.EndTime = endTime, !.StopDirection = stopDirection]

\* decimal.Decimal.String and timeToString.
DecimalText(d) == ToString(d)
timeToString(t) == "T" \o ToString(t)

\* OrderConfiguration.toMap: the fields that are set, as strings.
toMap(oc) ==
    LET keys == {k \in {"quote_size", "base_size", "limit_price", "stop_price",
                        "stop_direction", "end_time", "post_only"} :
                    CASE k = "quote_size" -> oc.QuoteSize # 0
                      [] k = "base_size" -> oc.BaseSize # 0
                      [] k = "limit_price" -> oc.LimitPrice # 0
                      [] k = "stop_price" -> oc.StopPrice # 0
                      [] k = "stop_direction" -> oc.StopDirection # ""
                      [] k = "end_time" -> oc.EndTime # 0
                      [] OTHER -> oc.PostOnly}
    IN  [k \in keys |->
            CASE k = "quote_size" -> DecimalText(oc.QuoteSize)
              [] k = "base_size" -> DecimalText(oc.BaseSize)
              [] k = "limit_price" -> DecimalText(oc.LimitPrice)
              [] k = "stop_price" -> DecimalText(oc.StopPrice)
              [] k = "stop_direction" -> oc.StopDirection
              [] k = "end_time" -> timeToString(oc.EndTime)
              [] OTHER -> "true"]

\* (mutant) the end time is not looked at.
getTypeNoEndTime(oc) ==
    CASE oc.LimitPrice = 0 -> MarketIOC
      [] oc.LimitPrice # 0 /\ oc.StopPrice = 0 -> LimitGTC
      [] OTHER -> StopLimitGTC

\* OrderConfiguration.getType: the type the set fields stand for.
getType(oc) ==
    LET gtd   == oc.EndTime # 0
        stop  == oc.StopPrice # 0
        limit == oc.LimitPrice # 0
    IN  CASE ~limit -> MarketIOC
          [] limit /\ ~gtd /\ ~stop -> LimitGTC
          [] limit /\ gtd /\ ~stop -> LimitGTD
          [] limit /\ ~gtd /\ stop -> StopLimitGTC
          [] OTHER -> StopLimitGTD

(* An order_configuration member as the server sends it, and what
   json.Unmarshal makes of it: Type and EndTime are tagged json:"-" and stay
   zero. *)
DecodeConfig(j) ==
    [ZeroConfig EXCEPT !.QuoteSize = j.quote_size, !.BaseSize = j.base_size,
                       !.LimitPrice = j.limit_price, !.StopPrice = j.stop_price,
                       !.StopDirection = j.stop_direction,
                       !.PostOnly = j.post_only]

\* m[k] of a Go map: the zero value when the key is absent.
MapGet(m, k, zero) == IF k \in DOMAIN m THEN m[k] ELSE zero

(* ------------------------ CreateOrder and GetOrder --------------------- *)
\* CreateOrder, lines 601-611: the body of the request. t is the clock, in
\* milliseconds.
CreateOrderPayload(clientOrderId, productId, side, oc, t) ==
    [client_order_id |-> IF clientOrderId = "" THEN ToString(t) ELSE clientOrderId,
     product_id |-> productId,
     side |-> side,
     order_configuration |-> [k \in {oc.Type} |-> toMap(oc)]]

ZeroOrder == [ID |-> "", Side |-> "", OrderConfiguration |-> ZeroConfig]

\* CreateOrder, lines 619-646: what is returned for the response resp. The
\* request returns an error as Request does.
CreateOrderReturns(c, side, oc, resp) ==
    LET reqErr == RequestReturns(c, resp.status, resp.body)
    IN  IF reqErr # NoErr
        THEN [order |-> ZeroOrder, errorType |-> "",
              err |-> formatError("api connection error", reqErr)]
        ELSE IF resp.success
        THEN [order |-> [ID |-> resp.order_id, Side |-> side,
                         OrderConfiguration |->
                             MapGet(resp.order_configuration, getType(oc), ZeroConfig)],
              errorType |-> "", err |-> NoErr]
        ELSE [order |-> ZeroOrder, errorType |-> resp.error,
              err |-> resp.details]

\* GetOrder, lines 770-804: the orders it can return for the order the server
\* served. The loop over the decoded map takes whichever member comes first.
GetOrder(c, status, body, served) ==
    LET reqErr == RequestReturns(c, status, body)
        decoded == [k \in DOMAIN served.order_configuration |->
                      DecodeConfig(served.order_configuration[k])]
        picked == IF DOMAIN decoded = {} THEN {ZeroConfig}
                  ELSE {decoded[k] : k \in DOMAIN decoded}
    IN  IF reqErr # NoErr THEN {[o |-> ZeroOrder, err |-> reqErr]}
        ELSE {[o |-> [ID |-> served.order_id, Side |-> served.side,
                      OrderConfiguration |-> [v EXCEPT !.Type = getType(v)]],
               err |-> NoErr] : v \in picked}

(* ----------------- one call on an order: OrderSpec -------------------- *)
Sides == {Buy, Sell}
StopDirections == {"STOP_DIRECTION_STOP_UP", "STOP_DIRECTION_STOP_DOWN"}
GivenSize == 5
GivenPrice == 7
GivenStopPrice == 3
GivenEndTime == 9

\* What the server sends as the configuration of an order of type t.
ServerConfigs(t) ==
    LET none == [quote_size |-> 0, base_size |-> 0, limit_price |-> 0,
                 stop_price |-> 0, stop_direction |-> "", end_time |-> 0,
                 post_only |-> FALSE]
        lim  == {[none EXCEPT !.base_size = GivenSize, !.limit_price = GivenPrice,
                              !.post_only = b] : b \in BOOLEAN}
        stp  == {[none EXCEPT !.base_size = GivenSize, !.limit_price = GivenPrice,
                              !.stop_price = GivenStopPrice, !.stop_direction = d] :
                    d \in StopDirections}
    IN  CASE t = MarketIOC -> {[none EXCEPT !.quote_size = GivenSize],
                               [none EXCEPT !.base_size = GivenSize]}
          [] t = LimitGTC -> lim
          [] t = LimitGTD -> {[j EXCEPT !.end_time = GivenEndTime] : j \in lim}
          [] t = StopLimitGTC -> stp
          [] OTHER -> {[j EXCEPT !.end_time = GivenEndTime] : j \in stp}

ServerConfigMaps ==
    {EmptyMap} \cup
    UNION {{[k \in {t} |-> j] : j \in ServerConfigs(t)} : t \in ConfigurationTypes}

\* The responses to a CreateOrder request.
CreateResponses ==
    [status : {200}, body : {JTop(JNull)}, success : {TRUE}, order_id : {"o1"},
     order_configuration : {EmptyMap, [k \in {LimitGTC} |->
                                          CHOOSE j \in ServerConfigs(LimitGTC) : j.post_only]},
     error : {""}, details : {""}]
    \cup
    [status : {200}, body : {JTop(JNull)}, success : {FALSE}, order_id : {""},
     order_configuration : {EmptyMap},
     error : {"INSUFFICIENT_FUND", "INVALID_REQUEST"},
     details : {"", "Insufficient balance"}]
    \cup
    [status : Statuses \ {200},
     body : {JObject(<<[key |-> "message", value |-> JStr("bad request")]>>),
             NotJson("Bad Gateway")},
     success : {FALSE}, order_id : {""}, order_configuration : {EmptyMap},
     error : {""}, details : {""}]

\* The configurations a caller hands to CreateOrder itself: every combination
\* of a set or unset limit price, stop price and end time.
RawConfigs ==
    {[ZeroConfig EXCEPT !.Type = ty, !.BaseSize = GivenSize, !.LimitPrice = l,
                        !.StopPrice = s, !.EndTime = e] :
        ty \in {MarketIOC, StopLimitGTD}, l \in {0, GivenPrice},
        s \in {0, GivenStopPrice}, e \in {0, GivenEndTime}}

PlaceOps == {"PlaceMarketIOC", "PlaceLimitGTC", "PlaceLimitGTD",
             "PlaceStopLimitGTC", "PlaceStopLimitGTD"}

OrderInit ==
    /\ CallInit
    /\ arg \in [op : PlaceOps, clientOrderId : {"", "id1"}, productId : {"BTC-USD"},
                side : Sides, size : {GivenSize}, price : {GivenPrice},
                stopPrice : {GivenStopPrice}, stopDirection : StopDirections,
                endTime : {GivenEndTime}, postOnly : BOOLEAN,
                resp : CreateResponses]
             \cup
             [op : {"CreateOrder"}, clientOrderId : {"id1"}, productId : {"BTC-USD"},
              side : Sides, oc : RawConfigs, resp : CreateResponses]
             \cup
             [op : {"GetOrder"}, status : Statuses,
              body : {JObject(<<[key |-> "message", value |-> JStr("bad request")]>>)},
              order : [order_id : {"o1"}, side : Sides,
                       order_configuration : ServerConfigMaps]]

\* A Place helper builds oc and CreateOrder sends it.
PlaceCall(name, oc) ==
    /\ arg.op = name
    /\ ~ret.done
    /\ ret' = [done |-> TRUE, oc |-> oc, t |-> getType(oc),
               payload |-> CreateOrderPayload(arg.clientOrderId, arg.productId,
                                              arg.side, oc, now),
               out |-> CreateOrderReturns(client, arg.side, oc, arg.resp)]
    /\ UNCHANGED <<listVars, now, lastCall, clientVars, gateVars, arg>>

\* CreateOrder called with a configuration of the caller's own; t is the type
\* it derives from the set fields.
CreateOrderCall == PlaceCall("CreateOrder", arg.oc)

PlaceMarketIOCCall ==
    PlaceCall("PlaceMarketIOC", PlaceMarketIOC(arg.side, arg.size))
PlaceLimitGTCCall ==
    PlaceCall("PlaceLimitGTC", PlaceLimitGTC(arg.size, arg.price, arg.postOnly))
PlaceLimitGTDCall ==
    PlaceCall("PlaceLimitGTD",
              PlaceLimitGTD(arg.size, arg.price, arg.endTime, arg.postOnly))
PlaceStopLimitGTCCall ==
    PlaceCall("PlaceStopLimitGTC",
              PlaceStopLimitGTC(arg.size, arg.price, arg.stopPrice, arg.stopDirection))
PlaceStopLimitGTDCall ==
    PlaceCall("PlaceStopLimitGTD",
              PlaceStopLimitGTD(arg.size, arg.price, arg.stopPrice,
                                arg.stopDirection, arg.endTime))

GetOrderCall ==
    /\ arg.op = "GetOrder"
    /\ ~ret.done
    /\ \E r \in GetOrder(client, arg.status, arg.body, arg.order) :
          ret' = [done |-> TRUE, o |-> r.o, err |-> r.err]
    /\ UNCHANGED <<listVars, now, lastCall, clientVars, gateVars, arg>>

OrderNext ==
    \/ PlaceMarketIOCCall
    \/ PlaceLimitGTCCall
    \/ PlaceLimitGTDCall
    \/ PlaceStopLimitGTCCall
    \/ PlaceStopLimitGTDCall
    \/ CreateOrderCall
    \/ GetOrderCall

OrderSpec == OrderInit /\ [][OrderNext]_vars

(* ------- Order.SetOrderConfiguration and Order.GetOrderConfiguration --- *)
\* (mutant) the map is keyed by the type the set fields stand for.
SetOrderConfigurationByFields(c) == [k \in {getType(c)} |-> c]

\* SetOrderConfiguration: the Order's map holds c alone, under its Type.
SetOrderConfiguration(c) == [k \in {c.Type} |-> c]

\* GetOrderConfiguration: the configurations it can return for the map m.
\* The range over a Go map visits the keys in any order, and the last
\* recognised key visited decides.
GetOrderConfiguration(m) ==
    LET known == DOMAIN m \cap ConfigurationTypes
    IN  IF known = {} THEN {[ZeroConfig EXCEPT !.Type = UnknownOrderConfiguration]}
        ELSE {[m[k] EXCEPT !.Type = k] : k \in known}

(* ------- an Order and its configuration map: OrderConfigSpec ---------- *)
GivenConfigs ==
    [Type : ConfigurationTypes \cup {UnknownOrderConfiguration, ""},
     QuoteSize : {0, GivenSize}, BaseSize : {0, GivenSize},
     LimitPrice : {0, GivenPrice}, StopPrice : {0, GivenStopPrice},
     StopDirection : {"", "STOP_DIRECTION_STOP_UP"},
     EndTime : {0, GivenEndTime}, PostOnly : BOOLEAN]

\* The maps an Order has before any call of SetOrderConfiguration.
DecodedMaps ==
    LET v == [ZeroConfig EXCEPT !.BaseSize = GivenSize, !.LimitPrice = GivenPrice]
    IN  {EmptyMap,
         [k \in {"limit_limit_fok"} |-> v],
         [k \in {LimitGTC} |-> v],
         [k \in {"limit_limit_fok", LimitGTC} |-> v],
         [k \in {MarketIOC, LimitGTC} |->
             IF k = LimitGTC THEN v ELSE [ZeroConfig EXCEPT !.QuoteSize = GivenSize]]}

OrderConfigInit ==
    /\ CallInit
    /\ arg \in [op : {"Order"}, OrderConfiguration : DecodedMaps,
                set : {FALSE}, given : {ZeroConfig}]

SetOrderConfigurationCall ==
    /\ arg.op = "Order"
    /\ ~arg.set
    /\ ~ret.done
    /\ \E c \in GivenConfigs :
          arg' = [arg EXCEPT !.OrderConfiguration = SetOrderConfiguration(c),
                             !.set = TRUE, !.given = c]
    /\ UNCHANGED <<listVars, now, lastCall, clientVars, gateVars, ret>>

GetOrderConfigurationCall ==
    /\ arg.op = "Order"
    /\ ~ret.done
    /\ \E c \in GetOrderConfiguration(arg.OrderConfiguration) :
          ret' = [done |-> TRUE, c |-> c]
    /\ UNCHANGED <<listVars, now, lastCall, clientVars, gateVars, arg>>

OrderConfigNext == SetOrderConfigurationCall \/ GetOrderConfigurationCall

OrderConfigSpec == OrderConfigInit /\ [][OrderConfigNext]_vars

(* -------------------------- parametersToValues ------------------------ *)
(* A parameters struct is the sequence of its fields, each with its cbt tag
   and its value; a value has the kind reflect reports for it. url.Values is
   the function from each key to the sequence of its values. *)
StringValue(s) == [kind |-> "string", s |-> s, i |-> 0, items |-> <<>>]
IntValue(i) == [kind |-> "int", s |-> "", i |-> i, items |-> <<>>]
SliceValue(items) == [kind |-> "slice", s |-> "", i |-> 0, items |-> items]
TimeValue(t) == [kind |-> "time", s |-> "", i |-> t, items |-> <<>>]

\* url.Values.Add
Add(u, k, v) ==
    [i \in DOMAIN u \cup {k} |->
        IF i # k THEN u[i]
        ELSE IF k \in DOMAIN u THEN Append(u[k], v) ELSE <<v>>]

\* (mutant) the elements are added last to first.
RECURSIVE AddSliceReversed(_, _, _)
AddSliceReversed(u, tag, items) ==
    IF items = <<>> THEN u
    ELSE Add(AddSliceReversed(u, tag, Tail(items)), tag, Head(items))

\* lines 54-59: each element of a slice is added under the tag, in order.
RECURSIVE AddSlice(_, _, _)
AddSlice(u, tag, items) ==
    IF items = <<>> THEN u
    ELSE AddSlice(Add(u, tag, Head(items)), tag, Tail(items))

\* (mutant) a number is added also when it is zero.
AddFieldZeroInt(u, f) ==
    IF f.tag = "" THEN u
    ELSE CASE f.val.kind = "string" -> IF f.val.s # "" THEN Add(u, f.tag, f.val.s) ELSE u
           [] f.val.kind = "int" -> Add(u, f.tag, ToString(f.val.i))
           [] f.val.kind = "slice" -> AddSlice(u, f.tag, f.val.items)
           [] f.val.kind = "time" ->
                  IF f.val.i # 0 THEN Add(u, f.tag, timeToString(f.val.i)) ELSE u
           [] f.val.kind = "decimal" ->
                  IF f.val.i # 0 THEN Add(u, f.tag, DecimalText(f.val.i)) ELSE u
           [] OTHER -> u

\* lines 37-78: what one field adds to u.
AddField(u, f) ==
    IF f.tag = "" THEN u
    ELSE CASE f.val.kind = "string" -> IF f.val.s # "" THEN Add(u, f.tag, f.val.s) ELSE u
           [] f.val.kind = "int" ->
                  IF f.val.i # 0 THEN Add(u, f.tag, ToString(f.val.i)) ELSE u
           [] f.val.kind = "slice" -> AddSlice(u, f.tag, f.val.items)
           [] f.val.kind = "time" ->
                  IF f.val.i # 0 THEN Add(u, f.tag, timeToString(f.val.i)) ELSE u
           [] f.val.kind = "decimal" ->
                  IF f.val.i # 0 THEN Add(u, f.tag, DecimalText(f.val.i)) ELSE u
           [] OTHER -> u

RECURSIVE AddFields(_, _)
AddFields(u, fields) ==
    IF fields = <<>> THEN u
    ELSE AddFields(AddField(u, Head(fields)), Tail(fields))

ErrNilParameters == "nil value passed to parametersToValues"
ErrNotStruct == "struct not provided as source of reflect"

\* parametersToValues, lines 21-82. ps.is says what was passed: nil, a struct,
\* or something else such as a pointer to a struct.
parametersToValues(ps) ==
    CASE ps.is = "nil" -> [u |-> EmptyMap, err |-> ErrNilParameters]
      [] ps.is = "struct" -> [u |-> AddFields(EmptyMap, ps.fields), err |-> NoErr]
      [] OTHER -> [u |-> EmptyMap, err |-> ErrNotStruct]

(* ------------- one call of parametersToValues: ParamsSpec -------------- *)
MaxStatuses == 2
OrderStatuses == {"OPEN", "FILLED"}
StatusSlices == UNION {[1..n -> OrderStatuses] : n \in 0..MaxStatuses}
GivenLimit == 25
GivenDate == 9

Field(tag, val) == [tag |-> tag, val |-> val]
Strings(s) == {StringValue(""), StringValue(s)}
Ints == {IntValue(0), IntValue(GivenLimit), IntValue(0 - GivenLimit)}
Times == {TimeValue(0), TimeValue(GivenDate)}

\* The parameters structs of the List operations, with their values.
ListOrdersParameters ==
    {<<Field("product_id", a), Field("order_type", b), Field("order_side", c),
       Field("order_status", SliceValue(d)), Field("start_date", e),
       Field("end_date", TimeValue(0)), Field("user_native_currency", StringValue("")),
       Field("product_type", f), Field("limit", g)>> :
        a \in Strings("BTC-USD"), b \in Strings("LIMIT"), c \in Strings("BUY"),
        d \in StatusSlices, e \in Times, f \in Strings("SPOT"), g \in Ints}
    \cup
    {<<Field("product_id", StringValue("")), Field("order_type", StringValue("")),
       Field("order_side", StringValue("")), Field("order_status", SliceValue(<<>>)),
       Field("start_date", TimeValue(0)), Field("end_date", e),
       Field("user_native_currency", a), Field("product_type", StringValue("")),
       Field("limit", IntValue(0))>> :
        a \in Strings("USD"), e \in Times}

ListFillsParameters ==
    {<<Field("order_id", a), Field("product_id", b),
       Field("start_sequence_timestamp", c), Field("end_sequence_timestamp", d),
       Field("limit", e)>> :
        a \in Strings("o1"), b \in Strings("BTC-USD"), c \in Times, d \in Times,
        e \in Ints}

ListProductsParameters ==
    {<<Field("limit", a), Field("product_type", b)>> :
        a \in Ints, b \in Strings("SPOT")}

ListAccountsParameters == {<<Field("limit", a)>> : a \in Ints}

Parameters ==
    {[is |-> "struct", fields |-> fs] :
        fs \in ListOrdersParameters \cup ListFillsParameters
                 \cup ListProductsParameters \cup ListAccountsParameters}
    \cup {[is |-> "nil", fields |-> <<>>]}
    \cup {[is |-> "pointer", fields |-> fs] : fs \in ListAccountsParameters}

ParamsInit ==
    /\ CallInit
    /\ arg \in [op : {"parametersToValues"}, p : Parameters]

parametersToValuesCall ==
    /\ arg.op = "parametersToValues"
    /\ ~ret.done
    /\ LET r == parametersToValues(arg.p)
       IN  ret' = [done |-> TRUE, u |-> r.u, err |-> r.err]
    /\ UNCHANGED <<listVars, now, lastCall, clientVars, gateVars, arg>>

ParamsSpec == ParamsInit /\ [][parametersToValuesCall]_vars

(* ----------------------- request and sign ------------------------------ *)
\* (mutant) the resource is left out of the signed message.
MessageNoResource(timestamp, method, resource, data) ==
    timestamp \o method \o data

\* sign, line 337: fmt.Sprintf("%s%s%s%s", timestamp, method, resource, data)
Message(timestamp, method, resource, data) ==
    timestamp \o method \o resource \o data

\* sign: the hex HMAC-SHA256 of the message under the secret. The digest is
\* kept as the pair it is computed from: distinct pairs, distinct digests.
sign(secret, timestamp, method, resource, data) ==
    [key |-> secret, msg |-> Message(timestamp, method, resource, data)]

\* strconv.FormatInt(t, 10)
FormatInt(t) == ToString(t)

\* (mutant) the signed resource is the whole uri.
ResourceWithQuery(c, endpoint, query) ==
    c["Host"] \o c["Path"] \o endpoint \o "?" \o query

\* request, line 304: resource := c.Path + endpoint
Resource(c, endpoint, query) == c["Path"] \o endpoint

\* request, lines 287-314: the request handed to the HTTP client when the
\* clock reads t (Unix seconds); query is the encoded query.
request(c, m, endpoint, query, payload, t) ==
    LET timestamp == FormatInt(t)
        resource  == Resource(c, endpoint, query)
    IN  [method |-> m,
         uri |-> c["Host"] \o c["Path"] \o endpoint \o "?" \o query,
         body |-> payload,
         key |-> c["Key"],
         timestamp |-> timestamp,
         signature |-> sign(c["Secret"], timestamp, m, resource, payload)]

(* ------------- two requests built side by side: SignSpec --------------- *)
Methods == {"GET", "POST"}
RequestInputs ==
    [c : [Host : {"https://coinbase.com"}, Path : {"/api", "/api/v3"},
          Key : {"k1"}, Secret : {"s1", "s2"}],
     m : Methods,
     endpoint : {"/orders", "/v3/orders"},
     query : {"", "limit=5"},
     payload : {"", "{}"},
     t : {1, 12}]

SignInit ==
    /\ CallInit
    /\ arg \in [op : {"request"}, a : RequestInputs, b : RequestInputs]

requestCall ==
    /\ arg.op = "request"
    /\ ~ret.done
    /\ ret' = [done |-> TRUE,
               a |-> request(arg.a.c, arg.a.m, arg.a.endpoint, arg.a.query,
                             arg.a.payload, arg.a.t),
               b |-> request(arg.b.c, arg.b.m, arg.b.endpoint, arg.b.query,
                             arg.b.payload, arg.b.t)]
    /\ UNCHANGED <<listVars, now, lastCall, clientVars, gateVars, arg>>

SignSpec == SignInit /\ [][requestCall]_vars

(* ============================ the claims ============================== *)
Pages == ServerPages(srv, params)

\* C1: against a server that serves a finite sequence of pages without
\* errors the documented loop terminates, having run its body once per server
\* page and issued one request per page, the first of them inside the List
\* operation.
C1_LoopOncePerPage ==
    /\ <>[](pc = "done" /\ bodies = Pages /\ Len(reqLog) = Pages /\ sent = Pages)
    /\ [](calls = 1 => sent = 1)

C1_Witness == pc = "done" /\ bodies = MaxPages /\ sent = MaxPages

\* C2: after a NextPage that fetched a page successfully, the items of the
\* list value the caller holds are exactly the items of that page.
C2_CallerHoldsNewPage ==
    (pc = "test" /\ calls > 1 /\ lastSent /\ lastErr = NoErr)
        => Items(heap, list) = lastResp.body.items

\* A page fetched in cursor mode: the response carried a cursor.
CursorFetch == lastSent /\ lastErr = NoErr /\ lastResp.body.cursor # ""

ReqOffsets == [i \in 1..Len(reqLog) |-> reqLog[i].offset]
\* 0, L, 2L, ... below T.
OffsetsBelow(T, L) == [k \in 1..((T + L - 1) \div L) |-> (k - 1) * L]
IsPrefix(a, b) == Len(a) <= Len(b) /\ a = SubSeq(b, 1, Len(a))

\* C5 as stated: in offset mode with limit L and total count T the requests
\* are made at exactly the offsets 0, L, 2L, ... below T, after which Next()
\* is false.
C5_OffsetsBelowTotal ==
    (srv.kind = "offset" /\ pc = "done") =>
        (ReqOffsets = OffsetsBelow(srv.total, p.limit) /\ ~Next(p))

\* C5 as amended: the requests are made at offset 0 and then at exactly the
\* further offsets L, 2L, ... below T (one request, at offset 0, also when
\* T = 0); then the loop ends with Next() false, and no other request is made.
ExpectedOffsets ==
    IF srv.total = 0 THEN <<0>> ELSE OffsetsBelow(srv.total, p.limit)
C5_OffsetsFromZero ==
    (srv.kind = "offset" /\ pc # "start") =>
        /\ IsPrefix(ReqOffsets, ExpectedOffsets)
        /\ ~Next(p) => ReqOffsets = ExpectedOffsets
        /\ pc = "done" => ~Next(p)

C5_Witness ==
    srv.kind = "offset" /\ pc = "done" /\ Len(reqLog) = MaxTotal /\ p.limit = 1

\* C6: once end is set Next() stays false, and every further NextPage call
\* returns nil without a request and without a change of state.
C6_EndIsFinal ==
    [][p.end =>
         /\ ~Next(p')
         /\ calls' > calls =>
              /\ lastErr' = NoErr
              /\ ~lastSent'
              /\ <<p, heap, parent, list, lastReq, sent, lastResp, now, lastCall>>'
                   = <<p, heap, parent, list, lastReq, sent, lastResp, now, lastCall>>]_vars

C6_Witness == p.end /\ calls = 3 /\ sent = 1 /\ ~lastSent

\* C7: a NextPage whose response carries no cursor (offset mode), on a
\* Pagination without a page-size limit, returns the configuration error, and
\* the configuration error is returned in no other case.
C7_NoLimitFails ==
    (calls > 0 /\ lastSent) =>
        ((RequestErr(lastResp) = NoErr /\ lastResp.body.cursor = "" /\ p.limit = 0)
            <=> lastErr = ErrNoLimit)

C7_Witness == lastSent /\ lastErr = ErrNoLimit /\ lastResp.body.has_next

\* C8: NewClient takes each of key, secret, host and path from the config
\* field when that is not empty, else from the environment variable, else
\* from the default.
C8_ConfigBeforeEnv ==
    client # NoClient =>
        \A f \in Fields :
            client[f] = IF ConfigClient(config)[f] # "" THEN ConfigClient(config)[f]
                        ELSE IF env[f] # "" THEN env[f]
                        ELSE defaults[f]

\* C9: on one thread every request is dispatched at least apiInterval after
\* the request before it, so the N-th is dispatched at least
\* (N - 1) * apiInterval after the first.
C9_Spacing ==
    /\ dispatched >= 2 => lastDispatch - prevDispatch >= apiInterval
    /\ dispatched >= 1 =>
          lastDispatch - firstDispatch >= (dispatched - 1) * apiInterval

C9_Witness ==
    dispatched = 3 /\ lastDispatch - firstDispatch = 2 * apiInterval

\* The first call of a client is in Request's sleep.
FirstCallWaiting == dispatched = 0 /\ tpc[1] = "sleep"

\* C10 as stated: the first call of a client proceeds at once, the rate gate
\* makes it wait for nothing.
C10_FirstCallNoWait == FirstCallWaiting => wake[1] = callAt[1]

\* C10 as amended: the first call waits until apiInterval has passed since
\* NewClient returned, at most apiInterval, and proceeds at once only when
\* the client is that old.
C10_FirstCallWaitsForAge ==
    FirstCallWaiting =>
        /\ wake[1] = Max(callAt[1], created + apiInterval)
        /\ wake[1] - callAt[1] <= apiInterval

C10_Witness == FirstCallWaiting /\ wake[1] = callAt[1] + apiInterval

\* C11: with two threads on one Client the gate holds only per thread: each
\* request is dispatched at least apiInterval after the lastCall its thread
\* read on entry, and nothing orders that read and the write at dispatch
\* against the other thread's, so two dispatches can be closer than
\* apiInterval (C11_Witness is such an interleaving).
C11_GatePerThreadOnly ==
    \A t \in Threads :
        tpc[t] = "inflight" => sentAt[t] >= seen[t] + apiInterval

\* Both threads read the same lastCall, slept to the same instant and
\* dispatched with no time between them.
C11_Witness ==
    /\ dispatched >= 2
    /\ tpc[1] = "inflight" /\ tpc[2] = "inflight"
    /\ seen[1] = seen[2]
    /\ lastDispatch - prevDispatch < apiInterval

\* The response is not a 200 and its body is exactly {"message": m}.
MessageBody(m) == JObject(<<[key |-> "message", value |-> JStr(m)]>>)
ApiFailure == ret.done /\ arg.status # 200

\* C12 as stated: a non-200 response whose body is {"message": m} yields an
\* error whose message is exactly m.
C12_MessageExactly ==
    \A v \in MemberValues :
        ApiFailure /\ v.t = "string" /\ arg.body = MessageBody(v.s)
            => ret.err = v.s

\* C12 as amended: the error's text is "api response: " followed by m,
\* followed by the note on the missing key when the client has no key or no
\* secret.
C12_MessageAfterLocation ==
    \A v \in MemberValues :
        ApiFailure /\ v.t = "string" /\ arg.body = MessageBody(v.s)
            => ret.err = "api response: " \o v.s \o
                   (IF client["Key"] = "" \/ client["Secret"] = ""
                    THEN " [API key or secret is missing]" ELSE "")

C12_Witness ==
    /\ ApiFailure /\ arg.status = 400
    /\ arg.body = MessageBody("bad request")
    /\ BodyText(arg.body) = "{\"message\":\"bad request\"}"
    /\ ret.err = "api response: bad request"

\* The members of the body that the decoder takes for the message field.
MessageMembers(b) ==
    {i \in 1..Len(b.members) : FoldsToMessage(b.members[i].key)}
\* The body provides a message: it is an object with a message member, and
\* every such member is a string.
ProvidesMessage(b) ==
    /\ b.json = "object"
    /\ MessageMembers(b) # {}
    /\ \A i \in MessageMembers(b) : b.members[i].value.t = "string"
\* The error text carries core, whatever surrounds it.
Carries(text, core) ==
    text \in {pre \o core \o post :
                 pre \in {"", "api response: "},
                 post \in {"", " [API key or secret is missing]"}}

\* C13: every non-200 response yields an error that carries the body's
\* message when the body provides one, and otherwise the status code together
\* with the raw body text.
C13_ErrorCarriesServerText ==
    ApiFailure =>
        IF ProvidesMessage(arg.body)
        THEN \E i \in MessageMembers(arg.body) :
                 Carries(ret.err, arg.body.members[i].value.s)
        ELSE Carries(ret.err,
                     "(" \o ToString(arg.status) \o ") " \o BodyText(arg.body))

\* The results of the response that report a failure, by position.
FailedResults == {j \in 1..Len(arg.results) : ~arg.results[j].Success}

\* C14: when the batch-cancel request itself succeeds, the returned map's
\* keys are exactly the order ids of the results with success = false, each
\* mapped to the failure reason of such a result (the last one with that id
\* when the response repeats an id), and the error is non-nil if and only if
\* the map is not empty.
C14_CancelMap ==
    ret.done /\ arg.op = "CancelOrders" /\ arg.status = 200 =>
        /\ DOMAIN ret.cancelErrors = {arg.results[j].ID : j \in FailedResults}
        /\ \A j \in FailedResults :
              (\A k \in FailedResults : k > j => arg.results[k].ID # arg.results[j].ID)
                  => ret.cancelErrors[arg.results[j].ID] = arg.results[j].Error
        /\ (ret.err # NoErr) <=> (DOMAIN ret.cancelErrors # {})

\* One order was cancelled and the other was not.
C14_Witness ==
    /\ ret.done /\ arg.op = "CancelOrders" /\ arg.status = 200
    /\ Len(arg.results) = 2
    /\ arg.results[1].Success /\ arg.results[1].ID = "o1"
    /\ ~arg.results[2].Success /\ arg.results[2].ID = "o2"
    /\ DOMAIN ret.cancelErrors = {"o2"}
    /\ ret.cancelErrors["o2"] = arg.results[2].Error
    /\ ret.err = "one or more orders were not cancelled successfully"

\* The key each Place helper's order type is sent under.
KeyOfHelper ==
    [name \in PlaceOps |->
        CASE name = "PlaceMarketIOC" -> "market_market_ioc"
          [] name = "PlaceLimitGTC" -> "limit_limit_gtc"
          [] name = "PlaceLimitGTD" -> "limit_limit_gtd"
          [] name = "PlaceStopLimitGTC" -> "stop_limit_stop_limit_gtc"
          [] OTHER -> "stop_limit_stop_limit_gtd"]

\* C15: the order_configuration each Place helper sends has exactly one
\* member, keyed by the configuration type of that helper's order type.
C15_PlaceKeys ==
    ret.done /\ arg.op \in PlaceOps =>
        DOMAIN ret.payload.order_configuration = {KeyOfHelper[arg.op]}

\* C16: the Order GetOrder returns has OrderConfiguration.Type equal to the
\* configuration type the server reports the order under.
C16_GetOrderType ==
    ret.done /\ arg.op = "GetOrder" /\ ret.err = NoErr =>
        \A k \in DOMAIN arg.order.order_configuration :
            ret.o.OrderConfiguration.Type = k

\* A rejection by the API: the response is not a 200, or it is a 200 that
\* reports success = false.
ApiRejects(resp) == resp.status # 200 \/ ~resp.success

\* C17: an error returned by the API is reported in the CreateOrderError
\* value, and err is nil unless the failure is at the networking level; every
\* response here is one the server sent, so none is such a failure.
C17_ApiErrorNotInErr ==
    ret.done /\ arg.op \in PlaceOps =>
        /\ ret.out.err = NoErr
        /\ ApiRejects(arg.resp) => ret.out.errorType # ""

\* C18: SetOrderConfiguration(c) with c.Type one of the five known types and
\* then GetOrderConfiguration() returns c unchanged; for an Order whose map
\* has no recognised key GetOrderConfiguration returns Type
\* UnknownOrderConfiguration.
C18_SetThenGet ==
    ret.done /\ arg.op = "Order" =>
        /\ arg.set /\ arg.given.Type \in ConfigurationTypes => ret.c = arg.given
        /\ DOMAIN arg.OrderConfiguration \cap ConfigurationTypes = {}
              => ret.c.Type = UnknownOrderConfiguration

\* A limit order with an end time was set under LimitGTC and read back.
C18_Witness ==
    /\ ret.done /\ arg.op = "Order" /\ arg.set
    /\ arg.given.Type = LimitGTC
    /\ arg.given.EndTime = GivenEndTime /\ arg.given.LimitPrice = GivenPrice
    /\ ret.c = arg.given

\* The value is the zero or empty value of its kind.
IsZeroValue(v) == v.s = "" /\ v.i = 0 /\ v.items = <<>>
\* The fields of the encoded struct that are not at their zero value.
SetFields == {j \in 1..Len(arg.p.fields) : ~IsZeroValue(arg.p.fields[j].val)}
Encoded == ret.done /\ arg.op = "parametersToValues" /\ arg.p.is = "struct"

\* C19: a struct whose tagged fields are all zero or empty encodes to an
\* empty query, and one with exactly one field set encodes to a query with
\* exactly one key, that field's tag.
C19_ZeroOmission ==
    Encoded =>
        /\ ret.err = NoErr
        /\ SetFields = {} => DOMAIN ret.u = {}
        /\ \A j \in SetFields :
              SetFields = {j} => DOMAIN ret.u = {arg.p.fields[j].tag}

\* Only the limit of a ListOrdersParameters is set.
C19_Witness ==
    /\ Encoded /\ Len(arg.p.fields) > 2
    /\ SetFields = {Len(arg.p.fields)}
    /\ DOMAIN ret.u = {"limit"}
    /\ ret.u["limit"] = <<ToString(GivenLimit)>>

\* C20: a sequence-of-strings field adds one value per element under its
\* tag, in input order, and adds nothing when the sequence is empty.
C20_RepeatedValues ==
    Encoded =>
        \A j \in 1..Len(arg.p.fields) :
            LET f == arg.p.fields[j]
            IN  f.val.kind = "slice" =>
                    IF f.val.items = <<>> THEN f.tag \notin DOMAIN ret.u
                    ELSE f.tag \in DOMAIN ret.u /\ ret.u[f.tag] = f.val.items

C20_Witness ==
    /\ Encoded
    /\ "order_status" \in DOMAIN ret.u
    /\ ret.u["order_status"] = <<"OPEN", "FILLED">>
    /\ \E j \in 1..Len(arg.p.fields) :
          arg.p.fields[j].val.items = <<"OPEN", "FILLED">>

\* The five inputs of sign for a request: secret, timestamp, method, resource
\* path and body.
SignInputs(i) ==
    <<i.c["Secret"], FormatInt(i.t), i.m, i.c["Path"] \o i.endpoint, i.payload>>
\* The positions where two tuples of inputs differ.
Differing(x, y) == {j \in 1..5 : x[j] # y[j]}

\* C21: equal inputs of sign give equal signatures, and two requests whose
\* inputs differ in exactly one of secret, timestamp, method, resource path
\* and body have different signed messages or secrets, hence different
\* signatures.
C21_SignatureOfInputs ==
    ret.done /\ arg.op = "request" =>
        LET d == Differing(SignInputs(arg.a), SignInputs(arg.b))
        IN  /\ d = {} => ret.a.signature = ret.b.signature
            /\ Cardinality(d) = 1 => ret.a.signature # ret.b.signature
            /\ Cardinality(d) = 1 /\ d # {1} => ret.a.signature.msg # ret.b.signature.msg

\* Two requests that differ in the resource path alone.
C21_Witness ==
    /\ ret.done /\ arg.op = "request"
    /\ Differing(SignInputs(arg.a), SignInputs(arg.b)) = {4}
    /\ ret.a.signature # ret.b.signature

\* C30: the CB-ACCESS-TIMESTAMP header of a request is the timestamp of its
\* signed message, and the signed resource is basePath + endpoint, with
\* neither host nor query string.
C30_TimestampAndResource ==
    ret.done /\ arg.op = "request" =>
        /\ ret.a.timestamp = FormatInt(arg.a.t)
        /\ ret.a.signature.msg =
               ret.a.timestamp \o arg.a.m \o arg.a.c["Path"] \o arg.a.endpoint
                   \o arg.a.payload

C30_Witness ==
    /\ ret.done /\ arg.op = "request"
    /\ arg.a.query = "limit=5" /\ arg.a.t = 12
    /\ ret.a.uri = "https://coinbase.com/api/v3/orders?limit=5"
    /\ ret.a.timestamp = "12"
    /\ ret.a.signature.msg = "12GET/api/v3/orders"

\* The latest call sent a request and the server answered it with a page.
PageServed ==
    /\ lastSent /\ lastResp.transportOk /\ lastResp.status = 200
    /\ lastResp.resultOk /\ lastResp.pagOk
\* The step is a NextPage call on a list the caller holds.
NextPageStep == pc = "listed" /\ calls' = calls + 1

\* C22: for ListAccounts, ListOrders and ListFills, which set no pagination
\* limit, a page served with has_next = false and an empty cursor never makes
\* the List operation or NextPage return an error.
C22_LastPageNoError ==
    /\ op \in {"ListAccounts", "ListOrders", "ListFills"}
    /\ PageServed
    /\ ~lastResp.body.has_next /\ lastResp.body.cursor = ""
    => lastErr = NoErr

\* C23, for the page after the first: a list whose first response brought a
\* cursor does not add to its offset nor decide exhaustion from the total
\* count when it takes the next page, and a list whose first response brought
\* none sends no cursor with its next request.
C23_ModeFixedByFirstPage ==
    [][calls = 1 /\ PageServed /\ lastErr = NoErr /\ NextPageStep /\ PageServed' =>
          IF lastResp.body.cursor # ""
          THEN p'.offset = p.offset /\ p'.noNext = ~lastResp'.body.has_next
          ELSE lastReq'.cursor = ""]_vars

\* C24: a NextPage call that returns an error leaves the pagination state as
\* it was before the call.
C24_ErrorKeepsState ==
    [][NextPageStep /\ lastErr' # NoErr => p' = p]_vars

C26_CursorOfPrecedingPage ==
    [][NextPageStep /\ lastSent' =>
          /\ op' = op /\ params' = params /\ lastReq'.limit = params
          /\ p.cursor # "" => lastReq'.cursor = p.cursor /\ lastReq'.offset = 0
          /\ p'.cursor = IF lastErr' \in {NoErr, ErrNoLimit}
                         THEN lastResp'.body.cursor ELSE p.cursor]_vars

C26_Witness ==
    /\ calls = 3 /\ sent = 3 /\ lastSent
    /\ lastReq.cursor = CursorOf(1)
    /\ lastErr = NoErr /\ p.cursor = CursorOf(3)

\* C27: no request carries both a cursor and an offset, and the first
\* request of a list carries neither.
C27_CursorOrOffset ==
    sent > 0 =>
        /\ ~(lastReq.cursor # "" /\ lastReq.offset > 0)
        /\ sent = 1 => lastReq.cursor = "" /\ lastReq.offset = 0

\* A products list that has advanced its offset and then got a cursor sends
\* the cursor alone.
C27_Witness ==
    /\ sent = 3 /\ lastSent /\ lastErr = NoErr
    /\ lastReq.cursor # "" /\ lastReq.offset = 0
    /\ lastResp.body.cursor # "" /\ p.offset > 0

\* C29: Request succeeds only for status 200; for any other status it
\* returns an error and writes neither the result target nor the pagination
\* target (the list's items and the pagination state stay as they were).
C29_Only200Succeeds ==
    [][sent' = sent + 1 /\ lastResp'.transportOk =>
          /\ lastErr' = NoErr => lastResp'.status = 200
          /\ lastResp'.status # 200 =>
                /\ lastErr' = ErrApi
                /\ heap' = heap /\ parent' = parent
                /\ p' = IF NextPageStep THEN p
                        ELSE NewPagination(op', params')]_vars

C29_Witness ==
    /\ calls = 2 /\ lastSent /\ lastResp.transportOk
    /\ lastResp.status = 201 /\ lastErr = ErrApi
    /\ p.cursor = CursorOf(1) /\ parent.len = MaxPageLen


CreateOrderDone == ret.done /\ arg.op \in PlaceOps \cup {"CreateOrder"}
GTDTypes == {LimitGTD, StopLimitGTD}
StopLimitTypes == {StopLimitGTC, StopLimitGTD}

\* C28 as stated: whatever combination of limit price, stop price and end
\* time is set, a set end time gives a GTD type and a set stop price gives a
\* stop-limit type.
C28_DerivationRule ==
    CreateOrderDone =>
        /\ ret.oc.EndTime # 0 => ret.t \in GTDTypes
        /\ ret.oc.StopPrice # 0 => ret.t \in StopLimitTypes

\* C28 as amended: with a limit price set, the derived type is a GTD type
\* exactly when an end time is set and a stop-limit type exactly when a stop
\* price is set; with no limit price set it is market_market_ioc, whatever
\* the stop price and the end time are.
C28_RuleUnderLimitPrice ==
    CreateOrderDone =>
        IF ret.oc.LimitPrice # 0
        THEN /\ ret.oc.EndTime # 0 <=> ret.t \in GTDTypes
             /\ ret.oc.StopPrice # 0 <=> ret.t \in StopLimitTypes
             /\ ret.t \in {LimitGTC} \cup GTDTypes \cup StopLimitTypes
        ELSE ret.t = MarketIOC

C28_Witness ==
    /\ ret.done /\ arg.op = "CreateOrder"
    /\ ret.oc.LimitPrice = 0 /\ ret.oc.EndTime # 0 /\ ret.oc.StopPrice # 0
    /\ ret.t = MarketIOC
====
